---- MODULE Spec2Model ----
(***************************************************************************)
(* Model of consensus/src/blockdag.rs: the BlockDAG orchestrator that owns *)
(* the relations, header, ghostdag and reachability stores and the         *)
(* in-memory orphan pool (missing_blocks).                                 *)
(*                                                                         *)
(* Hashes are small integers.  The headers a caller can present are the    *)
(* genesis header and one header per hash in Blocks; the parent list of    *)
(* each is drawn when the header is first presented (variable dag), so     *)
(* every DAG shape within the bounds, including parent lists that repeat   *)
(* a hash, is explored.                                                    *)
(* A panic (an unwrap on a failed store call) is modelled as the result    *)
(* "Panic": the persistent stores keep whatever was written before it.     *)
(***************************************************************************)
EXTENDS Integers, Sequences, FiniteSets, TLC

\* ---- bounds ----
NumBlocks == 3
MaxParents == 2

\* ---- hashes and headers ----
ORIGIN == 0
GenesisHash == 1
Blocks == 2..(NumBlocks + 1)
HeaderHashes == {GenesisHash} \cup Blocks

Range(f) == {f[x] : x \in DOMAIN f}

\* the element of a one-element set; Only({F(x) : x \in {e}}) is F(e) with e
\* evaluated once (a `let x = e` of the source)
Only(S) == CHOOSE x \in S : TRUE

\* parent lists a header with hash b may carry: non-empty, at most MaxParents
\* entries, each the hash of genesis or of a header with a smaller hash
\* (a hash is a function of the content, so the parent graph is acyclic);
\* a list names distinct hashes in increasing order, or one hash twice
ParentLists(b) ==
  {f \in UNION {[1..n -> {GenesisHash} \cup {c \in Blocks : c < b}] : n \in 1..MaxParents} :
     \/ \A i \in 1..(Len(f) - 1) : f[i] < f[i + 1]
     \/ Len(f) = 2 /\ f[1] = f[2]}

VARIABLES
  dag,                 \* hash -> parent list of the header with that hash,
                       \* <<>> while no caller has presented that header yet
  bad,                 \* hashes of headers that break the external validation rules
  relations_store,     \* hash -> parent list
  reachability_store,  \* hash -> tree parent (selected parent) in the index
  ghostdag_store,      \* hash -> ghostdag data
  header_store,        \* hash -> header
  missing_blocks,      \* missing parent hash -> set of headers waiting on it
  delivered,           \* history: hashes passed to connect_block so far
  last,                \* history: the last public call, its result, and the
                       \* engine and index calls it made
  pre                  \* history: stores, pool and delivered before the last public call

vars == <<dag, bad, relations_store, reachability_store, ghostdag_store,
          header_store, missing_blocks, delivered, last, pre>>

EmptyMap == [x \in {} |-> 0]

genesis == [hash |-> GenesisHash, parents |-> <<ORIGIN>>]

Header(h) == IF h = GenesisHash THEN genesis ELSE [hash |-> h, parents |-> dag[h]]

Created(h) == h = GenesisHash \/ dag[h] # <<>>

\* the headers a caller can present under hash h
HeadersWithHash(h) ==
  IF Created(h) THEN {Header(h)}
  ELSE {[hash |-> h, parents |-> ps] : ps \in ParentLists(h)}

Present(header) ==
  dag' = IF header.hash \in Blocks THEN [dag EXCEPT ![header.hash] = header.parents] ELSE dag

\* the store whose writes fail during a call; "none" while storage is sound
Faults == {"none", "ghostdag_store", "reachability_store", "relations_store",
           "header_store"}

\* the orchestrator's fields as one value, at the start of a public call:
\* fault is the store that fails during the call, computed lists the hashes
\* whose ghostdag data the call has obtained so far, adds the add_block calls
\* it has made so far
Self == [rel |-> relations_store, reach |-> reachability_store,
         gd |-> ghostdag_store, hdr |-> header_store,
         missing |-> missing_blocks,
         fault |-> "none", computed |-> <<>>, adds |-> <<>>]

FreshStorage == [rel |-> EmptyMap, reach |-> EmptyMap, gd |-> EmptyMap,
                 hdr |-> EmptyMap, missing |-> EmptyMap,
                 fault |-> "none", computed |-> <<>>, adds |-> <<>>]

\* a write to the named store goes through unless that store is failing
WriteOk(s, store) == s.fault # store

\* what pre remembers of a state
Snapshot == [rel |-> relations_store, reach |-> reachability_store,
             gd |-> ghostdag_store, hdr |-> header_store,
             missing |-> missing_blocks, delivered |-> delivered]

\* ---- stores (collaborators) ----
\* insert of a key the store already holds is a storage error
InsertOk(store, key) == key \notin DOMAIN store
Insert(store, key, value) == store @@ (key :> value)

\* inquirer::init: idempotent, indexes the ORIGIN sentinel
ReachabilityInit(reach) ==
  IF ORIGIN \in DOMAIN reach THEN reach ELSE reach @@ (ORIGIN :> ORIGIN)

\* inquirer::add_block contract
AddBlockOk(reach, hash, selected_parent, merge_set) ==
  /\ hash \notin DOMAIN reach
  /\ selected_parent \in DOMAIN reach
  /\ merge_set \subseteq DOMAIN reach
AddBlock(reach, hash, selected_parent, merge_set) ==
  reach @@ (hash :> selected_parent)

\* ---- scoring engine (collaborator) ----
genesis_ghostdag_data == [selected_parent |-> ORIGIN, mergeset |-> {}, blue_score |-> 0]

RECURSIVE PastOf(_, _)
PastOf(rel, h) ==
  IF h \notin DOMAIN rel THEN {}
  ELSE UNION {{p} \cup PastOf(rel, p) : p \in Range(rel[h]) \ {ORIGIN}}

\* the engine reads the persisted state of every parent
GhostdagReadable(s, parents_hash) ==
  \A p \in Range(parents_hash) :
    p \in DOMAIN s.gd /\ p \in DOMAIN s.rel /\ p \in DOMAIN s.reach

\* the parent with the highest blue score, ties broken by hash
SelectedParent(s, ps) ==
  CHOOSE p \in ps : \A q \in ps :
    \/ s.gd[p].blue_score > s.gd[q].blue_score
    \/ s.gd[p].blue_score = s.gd[q].blue_score /\ p >= q

\* the past of the new block that is not in the past of its selected parent
MergeSet(s, ps, sp) ==
  (ps \cup UNION {PastOf(s.rel, p) : p \in ps}) \ ({sp} \cup PastOf(s.rel, sp))

ghostdag(s, parents_hash) ==
  Only({[selected_parent |-> x.sp, mergeset |-> x.ms,
         blue_score |-> s.gd[x.sp].blue_score + Cardinality(x.ms) + 1] :
        x \in {[sp |-> sp, ms |-> MergeSet(s, Range(parents_hash), sp)] :
                 sp \in {SelectedParent(s, Range(parents_hash))}}})

\* ---- BlockDAG ----
Done(s) == [st |-> s, panic |-> FALSE]
Panicked(s) == [st |-> s, panic |-> TRUE]

\* faulty variant: the genesis test of commit_header inverted
GhostdagDataFor_Inverted(s, header) ==
  IF header.hash = genesis.hash
    THEN IF GhostdagReadable(s, header.parents)
           THEN [ok |-> TRUE, data |-> ghostdag(s, header.parents)]
           ELSE [ok |-> FALSE, data |-> genesis_ghostdag_data]
    ELSE [ok |-> TRUE, data |-> genesis_ghostdag_data]

\* commit_header, "Generate ghostdag data": ok is FALSE when the engine
\* cannot read a parent (ghostdag() returns a plain value, so it can only panic)
GhostdagDataFor(s, header) ==
  IF header.hash # genesis.hash
    THEN IF GhostdagReadable(s, header.parents)
           THEN [ok |-> TRUE, data |-> ghostdag(s, header.parents)]
           ELSE [ok |-> FALSE, data |-> genesis_ghostdag_data]
    ELSE [ok |-> TRUE, data |-> genesis_ghostdag_data]

\* faulty variant: the relations are stored before the reachability update
CommitWith_RelationsFirst(s, header, g) ==
  LET hash == header.hash
      ghostdag_data == g.data
      s0 == IF g.ok THEN [s EXCEPT !.computed = Append(@, hash)] ELSE s
      ok1 == g.ok /\ InsertOk(s.gd, hash) /\ WriteOk(s, "ghostdag_store")
      s1 == [s0 EXCEPT !.gd = Insert(@, hash, ghostdag_data)]
      ok2 == ok1 /\ InsertOk(s.rel, hash) /\ WriteOk(s, "relations_store")
      merge_set == {m \in ghostdag_data.mergeset : m \in DOMAIN s.reach}
      s2 == [s1 EXCEPT !.rel = Insert(@, hash, header.parents),
                       !.adds = Append(@, [hash |-> hash,
                                           selected_parent |-> ghostdag_data.selected_parent,
                                           merge_set |-> merge_set])]
      ok3 == /\ ok2
             /\ AddBlockOk(s.reach, hash, ghostdag_data.selected_parent, merge_set)
             /\ WriteOk(s, "reachability_store")
      s3 == [s2 EXCEPT !.reach = AddBlock(@, hash, ghostdag_data.selected_parent, merge_set)]
      ok4 == ok3 /\ InsertOk(s.hdr, hash) /\ WriteOk(s, "header_store")
      s4 == [s3 EXCEPT !.hdr = Insert(@, hash, header)]
  IN IF ok4 THEN Done(s4)
     ELSE IF ok3 THEN Panicked(s3)
     ELSE IF ok2 THEN Panicked(s2)
     ELSE IF ok1 THEN Panicked(s1)
     ELSE Panicked(s0)

\* commit_header after "Generate ghostdag data": four writes in order, each
\* unwrapped; a failed write panics and leaves the earlier writes in place
CommitWith(s, header, g) ==
  LET hash == header.hash
      ghostdag_data == g.data
      s0 == IF g.ok THEN [s EXCEPT !.computed = Append(@, hash)] ELSE s
      ok1 == g.ok /\ InsertOk(s.gd, hash) /\ WriteOk(s, "ghostdag_store")
      merge_set == {m \in ghostdag_data.mergeset : m \in DOMAIN s.reach}
      s1 == [s0 EXCEPT !.gd = Insert(@, hash, ghostdag_data),
                       !.adds = Append(@, [hash |-> hash,
                                           selected_parent |-> ghostdag_data.selected_parent,
                                           merge_set |-> merge_set])]
      ok2 == /\ ok1
             /\ AddBlockOk(s.reach, hash, ghostdag_data.selected_parent, merge_set)
             /\ WriteOk(s, "reachability_store")
      s2 == [s1 EXCEPT !.reach = AddBlock(@, hash, ghostdag_data.selected_parent, merge_set)]
      ok3 == ok2 /\ InsertOk(s.rel, hash) /\ WriteOk(s, "relations_store")
      s3 == [s2 EXCEPT !.rel = Insert(@, hash, header.parents)]
      ok4 == ok3 /\ InsertOk(s.hdr, hash) /\ WriteOk(s, "header_store")
      s4 == [s3 EXCEPT !.hdr = Insert(@, hash, header)]
  IN IF ok4 THEN Done(s4)
     ELSE IF ok3 THEN Panicked(s3)
     ELSE IF ok2 THEN Panicked(s2)
     ELSE IF ok1 THEN Panicked(s1)
     ELSE Panicked(s0)

CommitHeader(s, header) ==
  Only({CommitWith(s, header, g) : g \in {GhostdagDataFor(s, header)}})

\* faulty variant: the already-bootstrapped test dropped
InitWithGenesis_NoGuard(s) ==
  IF ~InsertOk(s.rel, ORIGIN) THEN Panicked(s)
  ELSE CommitHeader([s EXCEPT !.rel = Insert(@, ORIGIN, <<>>)], genesis)

\* faulty variant: the sentinel is written but genesis is not committed
InitWithGenesis_NoCommit(s) ==
  IF ORIGIN \in DOMAIN s.rel THEN Done(s)
  ELSE IF ~InsertOk(s.rel, ORIGIN) THEN Panicked(s)
  ELSE Done([s EXCEPT !.rel = Insert(@, ORIGIN, <<>>)])

InitWithGenesis(s) ==
  IF ORIGIN \in DOMAIN s.rel THEN Done(s)
  ELSE IF ~InsertOk(s.rel, ORIGIN) \/ ~WriteOk(s, "relations_store") THEN Panicked(s)
  ELSE CommitHeader([s EXCEPT !.rel = Insert(@, ORIGIN, <<>>)], genesis)

\* faulty variant: the reachability index is not initialised
New_NoReachabilityInit(storage) ==
  InitWithGenesis([storage EXCEPT !.missing = EmptyMap])

\* BlockDAG::new on the given storage
New(storage) ==
  InitWithGenesis([storage EXCEPT !.reach = ReachabilityInit(@), !.missing = EmptyMap])

\* faulty variant: membership read from the relations store
IsInDag_Persisted(s, hash) == hash \in DOMAIN s.rel

IsInDag(s, hash) == TRUE

VerifyHeader(s, header) == "Ok"

IsOrphan(s, header) ==
  IF \E i \in 1..Len(header.parents) : ~IsInDag(s, header.parents[i])
    THEN FALSE
    ELSE TRUE

\* update_orphans: the loop over parents_hash from index i on
RECURSIVE UpdateOrphansFrom(_, _, _, _)
UpdateOrphansFrom(s, block_header, i, is_orphan) ==
  IF i > Len(block_header.parents)
    THEN [st |-> s, is_orphan |-> is_orphan, err |-> FALSE]
    ELSE LET parent == block_header.parents[i]
             entry == IF parent \in DOMAIN s.missing THEN s.missing[parent] ELSE {}
             s1 == [s EXCEPT !.missing =
                      [p \in DOMAIN s.missing \cup {parent} |->
                         IF p = parent THEN entry \cup {block_header} ELSE s.missing[p]]]
         IN IF IsInDag(s, parent)
              THEN UpdateOrphansFrom(s, block_header, i + 1, is_orphan)
              ELSE IF block_header \in entry
                     THEN [st |-> s1, is_orphan |-> is_orphan, err |-> TRUE]
                     ELSE UpdateOrphansFrom(s1, block_header, i + 1, TRUE)

UpdateOrphans(s, block_header) == UpdateOrphansFrom(s, block_header, 1, FALSE)

\* check_missing_block: the loop over the removed entry, visited in the
\* order orphans (the iteration order of a HashSet is arbitrary)
RECURSIVE CheckOrphansFrom(_, _, _, _)
CheckOrphansFrom(s, header, orphans, i) ==
  IF i > Len(orphans) THEN Done(s)
  ELSE IF ~IsOrphan(s, orphans[i])
    THEN Only({IF c.panic THEN c ELSE CheckOrphansFrom(c.st, header, orphans, i + 1) :
               c \in {CommitHeader(s, header)}})
    ELSE CheckOrphansFrom(s, header, orphans, i + 1)

OrphansOf(s, hash) == IF hash \in DOMAIN s.missing THEN s.missing[hash] ELSE {}

Orderings(S) ==
  {f \in [1..Cardinality(S) -> S] : \A i, j \in DOMAIN f : i # j => f[i] # f[j]}

CheckMissingBlock(s, header, orphans) ==
  IF header.hash \in DOMAIN s.missing
    THEN CheckOrphansFrom(
           [s EXCEPT !.missing = [p \in DOMAIN s.missing \ {header.hash} |-> s.missing[p]]],
           header, orphans, 1)
    ELSE Done(s)

\* connect_block from `self.commit_header(header)` on, c its outcome
ConnectCommitted(c, header, orphans) ==
  IF c.panic THEN [st |-> c.st, result |-> "Panic"]
  ELSE Only({[st |-> m.st, result |-> IF m.panic THEN "Panic" ELSE "Ok"] :
             m \in {CheckMissingBlock(c.st, header, orphans)}})

\* connect_block from `if is_orphan_block` on, u the outcome of update_orphans
ConnectUpdated(u, header, orphans) ==
  IF u.err THEN [st |-> u.st, result |-> "Err"]
  ELSE IF u.is_orphan THEN [st |-> u.st, result |-> "Ok"]
  ELSE Only({ConnectCommitted(c, header, orphans) : c \in {CommitHeader(u.st, header)}})

\* connect_block; result is "Ok", "Err" or "Panic"
ConnectBlock(s, header, orphans) ==
  IF VerifyHeader(s, header) # "Ok" THEN [st |-> s, result |-> "Err"]
  ELSE Only({ConnectUpdated(u, header, orphans) : u \in {UpdateOrphans(s, header)}})

\* ---- state machine ----
Store(s) ==
  /\ relations_store' = s.rel
  /\ reachability_store' = s.reach
  /\ ghostdag_store' = s.gd
  /\ header_store' = s.hdr
  /\ missing_blocks' = s.missing

\* some commit was left incomplete: a hash is in one of the stores but not in
\* all four (for ORIGIN: its relation is written but genesis is not committed)
Incomplete ==
  \/ \E h \in HeaderHashes :
       /\ \/ h \in DOMAIN ghostdag_store
          \/ h \in DOMAIN reachability_store
          \/ h \in DOMAIN relations_store
          \/ h \in DOMAIN header_store
       /\ ~(/\ h \in DOMAIN ghostdag_store
            /\ h \in DOMAIN reachability_store
            /\ h \in DOMAIN relations_store
            /\ h \in DOMAIN header_store)
  \/ ORIGIN \in DOMAIN relations_store /\ GenesisHash \notin DOMAIN header_store

\* the stores of F that may fail during the next call: storage fails again
\* only while no earlier failure has left a commit incomplete
FailingNow(F) == IF Incomplete THEN F \cap {"none"} ELSE F

\* construction on fresh storage while a store of F fails ("none": sound);
\* B holds the sets of headers that may break the validation rules
InitUnder(F, B) ==
  /\ dag = [b \in Blocks |-> <<>>]
  /\ bad \in B
  /\ \E f \in F : \E n \in {New([FreshStorage EXCEPT !.fault = f])} :
        /\ relations_store = n.st.rel
        /\ reachability_store = n.st.reach
        /\ ghostdag_store = n.st.gd
        /\ header_store = n.st.hdr
        /\ missing_blocks = n.st.missing
        /\ last = [op |-> "new", hash |-> GenesisHash,
                   result |-> IF n.panic THEN "Panic" ELSE "Ok",
                   computed |-> n.st.computed, adds |-> n.st.adds]
  /\ delivered = {}
  /\ pre = [rel |-> EmptyMap, reach |-> EmptyMap, gd |-> EmptyMap,
            hdr |-> EmptyMap, missing |-> EmptyMap, delivered |-> {}]

\* a caller passes the header with hash h, of at most n parents, to
\* connect_block while a store of F fails
ConnectUnder(F, n) ==
  \E h \in HeaderHashes :
    \E header \in {x \in HeadersWithHash(h) : Len(x.parents) <= n} :
      \E orphans \in Orderings(OrphansOf(Self, h)) :
        \E f \in FailingNow(F) : \E r \in {ConnectBlock([Self EXCEPT !.fault = f], header, orphans)} :
           /\ Store(r.st)
           /\ Present(header)
           /\ delivered' = delivered \cup {h}
           /\ last' = [op |-> "connect_block", hash |-> h, result |-> r.result,
                       computed |-> r.st.computed, adds |-> r.st.adds]
           /\ pre' = Snapshot
           /\ UNCHANGED bad

\* a caller calls the public commit_header directly, as tests::base_test
\* does: with a header whose parent list is [genesis_hash]
CommitUnder(F) ==
  \E h \in Blocks :
    \E header \in {x \in HeadersWithHash(h) : x.parents = <<genesis.hash>>} :
      \E f \in FailingNow(F) : \E r \in {CommitHeader([Self EXCEPT !.fault = f], header)} :
         /\ Store(r.st)
         /\ Present(header)
         /\ last' = [op |-> "commit_header", hash |-> h,
                     result |-> IF r.panic THEN "Panic" ELSE "Ok",
                     computed |-> r.st.computed, adds |-> r.st.adds]
         /\ pre' = Snapshot
         /\ UNCHANGED <<bad, delivered>>

\* a caller calls the public init_with_genesis again
BootstrapUnder(F) ==
  \E f \in FailingNow(F) : \E r \in {InitWithGenesis([Self EXCEPT !.fault = f])} :
     /\ Store(r.st)
     /\ last' = [op |-> "init_with_genesis", hash |-> GenesisHash,
                 result |-> IF r.panic THEN "Panic" ELSE "Ok",
                 computed |-> r.st.computed, adds |-> r.st.adds]
     /\ pre' = Snapshot
     /\ UNCHANGED <<dag, bad, delivered>>

\* storage is sound
Init == InitUnder({"none"}, {{}, {NumBlocks + 1}})

Connect == ConnectUnder({"none"}, MaxParents)

Commit == CommitUnder({"none"})

Bootstrap == BootstrapUnder({"none"})

Next == Connect \/ Commit \/ Bootstrap

Spec == Init /\ [][Next]_vars

\* any one store may fail during a call, construction included, until a
\* failure leaves a commit incomplete; the headers presented pass validation
\* and have one parent each
FaultInit == InitUnder(Faults, {{}})

FaultyConnect == ConnectUnder(Faults, 1)

FaultyCommit == CommitUnder(Faults)

FaultyBootstrap == BootstrapUnder(Faults)

FaultNext == FaultyConnect \/ FaultyCommit \/ FaultyBootstrap

FaultSpec == FaultInit /\ [][FaultNext]_vars

TypeOK ==
  /\ DOMAIN relations_store \subseteq HeaderHashes \cup {ORIGIN}
  /\ DOMAIN reachability_store \subseteq HeaderHashes \cup {ORIGIN}
  /\ DOMAIN ghostdag_store \subseteq HeaderHashes
  /\ DOMAIN header_store \subseteq HeaderHashes
  /\ DOMAIN missing_blocks \subseteq HeaderHashes \cup {ORIGIN}
  /\ last.result \in {"Ok", "Err", "Panic"}

\* ---- properties ----
Committed(s, h) ==
  /\ h \in DOMAIN s.gd
  /\ h \in DOMAIN s.reach
  /\ h \in DOMAIN s.rel
  /\ h \in DOMAIN s.hdr

\* h appears in one of the four stores
Stored(s, h) ==
  \/ h \in DOMAIN s.gd
  \/ h \in DOMAIN s.reach
  \/ h \in DOMAIN s.rel
  \/ h \in DOMAIN s.hdr

ParentsOf(h) == Range(Header(h).parents) \ {ORIGIN}

RECURSIVE Ancestors(_)
Ancestors(h) == ParentsOf(h) \cup UNION {Ancestors(p) : p \in ParentsOf(h)}

\* the header with hash h is in the pool entry keyed by p
Waiting(s, h, p) == Header(h) \in OrphansOf(s, p)

StoresUnchanged ==
  /\ relations_store = pre.rel
  /\ reachability_store = pre.reach
  /\ ghostdag_store = pre.gd
  /\ header_store = pre.hdr

\* the last call was connect_block(P), returned Ok, and committed P
JustConnected(P) ==
  /\ last.op = "connect_block"
  /\ last.hash = P
  /\ last.result = "Ok"
  /\ ~Stored(pre, P)
  /\ Committed(Self, P)

C2_OrphanCorrectness ==
  (/\ last.op = "connect_block"
   /\ \E P \in ParentsOf(last.hash) : ~Committed(pre, P))
  => /\ last.result = "Ok"
     /\ ~Stored(Self, last.hash)
     /\ \A P \in ParentsOf(last.hash) :
          ~Committed(pre, P) => Waiting(Self, last.hash, P)

\* C3: orphan resolution.  H was passed to connect_block while its parent P
\* was missing; when connect_block(P) returns Ok having committed P, and all
\* parents of H are then committed, H is committed by that call.
C3_OrphanResolution ==
  \A P \in HeaderHashes : \A H \in delivered \ {P} :
    (/\ JustConnected(P)
     /\ P \in ParentsOf(H)
     /\ \A q \in ParentsOf(H) : Committed(Self, q))
    => Committed(Self, H)

\* C4: duplicate-orphan rejection.  A second connect_block(H) while a parent
\* of H is still missing returns an error and leaves the pool and the four
\* stores as they were.
C4_DuplicateOrphanRejected ==
  (/\ last.op = "connect_block"
   /\ last.hash \in pre.delivered
   /\ \E P \in ParentsOf(last.hash) : ~Committed(pre, P))
  => /\ last.result = "Err"
     /\ StoresUnchanged
     /\ missing_blocks = pre.missing

\* C5: membership test.  is_in_dag(h) is true exactly when h is committed
\* (its relations and header are persisted).
C5_MembershipTest ==
  \A h \in HeaderHashes :
    IsInDag(Self, h) <=> (h \in DOMAIN relations_store /\ h \in DOMAIN header_store)

\* C6: genesis idempotence.  A further init_with_genesis on a bootstrapped
\* DAG returns without touching the relations, header, ghostdag and
\* reachability stores.
C6_GenesisIdempotent ==
  last.op = "init_with_genesis" =>
    /\ last.result = "Ok"
    /\ StoresUnchanged

\* init_with_genesis was called again after blocks had been committed
C6_Witness ==
  /\ last.op = "init_with_genesis"
  /\ DOMAIN header_store \cap Blocks # {}
  /\ Committed(Self, GenesisHash)

\* C7: after BlockDAG::new on fresh storage the ORIGIN relation exists with
\* an empty parent list and genesis is in all four stores; a direct
\* commit_header of a new header whose only parent is genesis then finds its
\* parent committed and completes, leaving the header in all four stores.
C7_BootstrapThenCommit ==
  /\ last.op = "new" =>
       /\ last.result = "Ok"
       /\ ORIGIN \in DOMAIN relations_store
       /\ relations_store[ORIGIN] = <<>>
       /\ Committed(Self, GenesisHash)
  /\ (/\ last.op = "commit_header"
      /\ Header(last.hash).parents = <<GenesisHash>>
      /\ ~Stored(pre, last.hash))
     => /\ Committed(pre, GenesisHash)
        /\ last.result = "Ok"
        /\ Committed(Self, last.hash)

\* the base_test scenario: the first call after construction is commit_header
\* of a header whose only parent is genesis
C7_Witness ==
  /\ last.op = "commit_header"
  /\ last.result = "Ok"
  /\ DOMAIN pre.hdr = {GenesisHash}
  /\ Committed(Self, last.hash)

\* C8: outcome of connect.  connect_block returns Ok or an error, never
\* panics; after Ok the header is either committed or registered in the pool
\* under a missing parent, not both and not neither.
C8_ConnectOutcome ==
  last.op = "connect_block" =>
    /\ last.result \in {"Ok", "Err"}
    /\ last.result = "Ok" =>
         (Committed(Self, last.hash)
            <=> ~(\E P \in ParentsOf(last.hash) :
                    ~Committed(Self, P) /\ Waiting(Self, last.hash, P)))

\* C9: validation failure.  connect_block of a header that fails validation
\* returns an error and leaves the four stores and the pool unchanged.
C9_ValidationFailure ==
  (last.op = "connect_block" /\ last.hash \in bad)
  => /\ last.result = "Err"
     /\ StoresUnchanged
     /\ missing_blocks = pre.missing

\* C10: dependent resolution.  When connect_block(P) has committed P, a
\* header H that was waiting on P is committed exactly if all its parents
\* are committed, and otherwise stays registered under a missing parent.
C10_ResolveDependents ==
  \A P \in HeaderHashes : \A H \in delivered \ {P} :
    (/\ JustConnected(P)
     /\ P \in ParentsOf(H)
     /\ ~Stored(pre, H))
    => /\ Committed(Self, H) <=> \A q \in ParentsOf(H) : Committed(Self, q)
       /\ ~Committed(Self, H) =>
            \E q \in ParentsOf(H) : ~Committed(Self, q) /\ Waiting(Self, H, q)

\* position of h in the sequence q, 0 if absent
IndexOf(q, h) ==
  IF \E i \in DOMAIN q : q[i] = h THEN CHOOSE i \in DOMAIN q : q[i] = h ELSE 0

NoRepeats(q) == \A i, j \in DOMAIN q : i # j => q[i] # q[j]

\* C11: each header is committed at most once.  No call obtains ghostdag
\* data for a hash that already has ghostdag data, or twice for one hash;
\* stored ghostdag data is never overwritten; no call adds to the
\* reachability index a hash that is already in it.
C11_CommittedOnce ==
  /\ NoRepeats(last.computed)
  /\ \A i \in DOMAIN last.computed : last.computed[i] \notin DOMAIN pre.gd
  /\ \A h \in DOMAIN pre.gd :
       h \in DOMAIN ghostdag_store /\ ghostdag_store[h] = pre.gd[h]
  /\ \A i \in DOMAIN last.adds : last.adds[i].hash \notin DOMAIN pre.reach
  /\ \A i, j \in DOMAIN last.adds : i # j => last.adds[i].hash # last.adds[j].hash

\* C12: orphan chains.  H1 was passed to connect_block while only its parent
\* P was missing, H2 while only its parent H1 was missing; when
\* connect_block(P) returns Ok having committed P, H1 and H2 are committed by
\* that call, H1 before H2, and the pool has no entry for P or H1.
C12_OrphanChain ==
  \A P \in HeaderHashes : \A H1, H2 \in delivered \ {P} :
    (/\ JustConnected(P)
     /\ H1 # H2
     /\ P \in ParentsOf(H1)
     /\ H1 \in ParentsOf(H2)
     /\ ~Stored(pre, H1)
     /\ ~Stored(pre, H2)
     /\ \A q \in ParentsOf(H1) \ {P} : Committed(pre, q)
     /\ \A q \in ParentsOf(H2) \ {P, H1} : Committed(pre, q))
    => /\ Committed(Self, H1)
       /\ Committed(Self, H2)
       /\ 0 < IndexOf(last.computed, H1)
       /\ IndexOf(last.computed, H1) < IndexOf(last.computed, H2)
       /\ P \notin DOMAIN missing_blocks
       /\ H1 \notin DOMAIN missing_blocks

\* C13: commit write order.  In every state, also one left by a commit that
\* was aborted partway, a header hash in the header store is in the
\* relations store, one in the relations store is in the reachability index,
\* and one in the reachability index has ghostdag data.
C13_WriteOrder ==
  \A h \in HeaderHashes :
    /\ h \in DOMAIN header_store => h \in DOMAIN relations_store
    /\ h \in DOMAIN relations_store => h \in DOMAIN reachability_store
    /\ h \in DOMAIN reachability_store => h \in DOMAIN ghostdag_store

\* a commit was aborted between the reachability update and the relations
\* write, while other headers are fully committed
C13_Witness ==
  /\ last.result = "Panic"
  /\ \E h \in Blocks :
       /\ h \in DOMAIN ghostdag_store
       /\ h \in DOMAIN reachability_store
       /\ h \notin DOMAIN relations_store
       /\ h \notin DOMAIN header_store
  /\ Committed(Self, GenesisHash)

AllHashes == HeaderHashes \cup {ORIGIN}

\* C14: orphan registration keys.  connect_block(H) for a header H with a
\* parent that is not in the DAG adds H to the pool entry of every such
\* parent and leaves the entry of every other hash as it was.
C14_OrphanKeys ==
  (/\ last.op = "connect_block"
   /\ \E P \in ParentsOf(last.hash) : ~Committed(pre, P))
  => \A p \in AllHashes :
       OrphansOf(Self, p) =
         IF p \in ParentsOf(last.hash) /\ ~Committed(pre, p)
           THEN OrphansOf(pre, p) \cup {Header(last.hash)}
           ELSE OrphansOf(pre, p)

\* the reachability index as it was when the add_block call a was made
IndexAt(a) == DOMAIN reachability_store \ {a.hash}

C17_GenesisOrComputed ==
  \A h \in DOMAIN ghostdag_store :
    IF h = GenesisHash
      THEN ghostdag_store[h] = genesis_ghostdag_data
      ELSE /\ GhostdagReadable(Self, Header(h).parents)
           /\ ghostdag_store[h] = ghostdag(Self, Header(h).parents)
           /\ ghostdag_store[h] # genesis_ghostdag_data

\* genesis and a header with two different parents have stored data
C17_Witness ==
  /\ GenesisHash \in DOMAIN ghostdag_store
  /\ \E h \in Blocks :
       /\ h \in DOMAIN ghostdag_store
       /\ Cardinality(ParentsOf(h)) = 2
       /\ ghostdag_store[h].mergeset # {}

\* the delivered headers are closed under the parent relation, up to genesis
Closed == \A h \in delivered : ParentsOf(h) \subseteq delivered \cup {GenesisHash}

\* C18: delivery-order independence.  With well-formed headers, the first
\* connect_block of a header that is not stored yet returns no error, in
\* whatever order the headers arrive; and once the headers delivered are
\* closed under the parent relation, all of them are committed and the
\* orphan pool is empty.
C18_OrderIndependence ==
  (/\ bad = {}
   /\ last.op = "connect_block"
   /\ last.hash \notin pre.delivered
   /\ ~Stored(pre, last.hash))
  => /\ last.result = "Ok"
     /\ Closed => /\ \A h \in delivered : Committed(Self, h)
                  /\ DOMAIN missing_blocks = {}

\* C19: the duplicate-orphan error implies prior registration.  connect_block
\* returns an error only for a header that an earlier connect_block put in
\* the pool; the first connect_block of a header returns no error; and an
\* error return leaves the pool as it was.
C19_ErrorImpliesRegistered ==
  last.op = "connect_block" =>
    /\ last.result = "Err" =>
         /\ last.hash \in pre.delivered
         /\ \E p \in AllHashes : Header(last.hash) \in OrphansOf(pre, p)
         /\ missing_blocks = pre.missing
    /\ last.hash \notin pre.delivered => last.result # "Err"

\* the first connect_block of a header whose parent list names the same
\* missing parent twice
C19_Witness ==
  /\ last.op = "connect_block"
  /\ last.hash \in Blocks
  /\ last.hash \notin pre.delivered
  /\ Len(Header(last.hash).parents) = 2
  /\ Header(last.hash).parents[1] = Header(last.hash).parents[2]
  /\ ~Stored(pre, Header(last.hash).parents[1])

\* C20: bootstrap marker consistency.  In every state, also after a bootstrap
\* whose genesis commit was aborted and a further init_with_genesis, the
\* ORIGIN relation being present implies that genesis is in all four stores.
C20_MarkerConsistent ==
  ORIGIN \in DOMAIN relations_store => Committed(Self, GenesisHash)
====
